---------------------------- MODULE Spec2Model ----------------------------
(***************************************************************************)
(* State-machine model of the bug-buster-ai client: the Analyze page and   *)
(* the Dashboard (src/src/pages/Analyze.tsx) with their authentication     *)
(* guards, the Header and the SampleAnalysisDrawer                         *)
(* (src/src/components/Header.tsx), the Index page (src/unnamed/part_001)  *)
(* and the routing that mounts and unmounts them; and of the CodeBlock and *)
(* Dropzone components (src/src/components/ui/code-block.tsx), which none  *)
(* of the pages renders.                                                   *)
(***************************************************************************)
EXTENDS Integers, Sequences, FiniteSets, TLC

VARIABLES
    user,            \* useAuth().user: NoUser or a signed-in user
    loading,         \* useAuth().loading
    route,           \* current location of the client-side router
    view,            \* what the routed page returned from its last render
    code,            \* Analyze: useState('')            (text = sequence of characters)
    language,        \* Analyze: useState('javascript')
    isAnalyzing,     \* Analyze: useState(false)
    progress,        \* Analyze: useState(0)
    analysisResult,  \* Analyze: useState<AnalysisResult | null>(null)
    uploadedFile,    \* Analyze: useState<File | null>(null)
    reads,           \* FileReader.readAsText calls whose onload has not fired yet
    runs,            \* handleAnalyze calls suspended in simulateAnalysis
    toasts,          \* notifications emitted by the last step
    outputs,         \* clipboard writes and downloads made by the last step
    lastEvent,       \* the handler or callback that made the last step
    calls,           \* the calls made, in program order, by the code after an await
                     \* that ran in the last step
    analyses,        \* Dashboard: useState<Analysis[]>([])
    isMenuOpen,      \* Header: useState(false)
    signOuts,        \* handleSignOut calls suspended in signOut()
    showSampleDrawer,   \* Index: useState(false)
    sampleIsAnalyzing,  \* SampleAnalysisDrawer: isAnalyzing, useState(false)
    showResults,        \* SampleAnalysisDrawer: useState(false)
    sampleRuns,         \* runAnalysis calls suspended in their 2000 ms timer, oldest first
    rows,               \* Dashboard: the rows of the Recent Analyses list in the last render
    stats,              \* Dashboard: the three statistics cards in the last render
    copied,             \* CodeBlock: useState(false)
    copyWrites,         \* CodeBlock: copyToClipboard calls suspended in clipboard.writeText
    copyTimers,         \* CodeBlock: ms left on each pending setTimeout(..., 2000), oldest first
    acceptedFiles,      \* Dropzone: acceptedFiles of useDropzone
    maxFiles            \* Dropzone: the maxFiles prop

vars == <<user, loading, route, view, code, language, isAnalyzing, progress,
          analysisResult, uploadedFile, reads, runs, toasts, outputs, lastEvent,
          calls, analyses, isMenuOpen, signOuts,
          showSampleDrawer, sampleIsAnalyzing, showResults, sampleRuns, rows, stats,
          copied, copyWrites, copyTimers, acceptedFiles, maxFiles>>

authVars == <<user, loading>>
pageVars == <<code, language, isAnalyzing, progress, analysisResult, uploadedFile>>
indexVars == <<showSampleDrawer, sampleIsAnalyzing, showResults, sampleRuns>>
headerVars == <<isMenuOpen, signOuts>>
shellVars == <<analyses, headerVars, indexVars>>
codeBlockVars == <<copied, copyWrites, copyTimers>>
dropzoneVars == <<acceptedFiles, maxFiles>>
\* CodeBlock and Dropzone are rendered by none of the routed pages
widgetVars == <<codeBlockVars, dropzoneVars>>
appVars == <<user, loading, route, view, pageVars, reads, runs, shellVars, rows, stats>>

-----------------------------------------------------------------------------
(* Bounds of the model *)

MaxCodeLen == 1      \* longest text typed into the textarea
MaxReads == 1        \* file reads pending at the same time
MaxRuns == 2         \* simulateAnalysis calls pending at the same time (all mounts)
MaxSignOuts == 2     \* handleSignOut calls pending at the same time
MaxSampleRuns == 2   \* runAnalysis calls pending at the same time (all mounts)
MaxAnalyses == 2     \* longest list of history records given to the Dashboard
MaxUploads == 2      \* file reads pending at the same time when files are picked in a row
ClockStep == 500     \* resolution of the clock that runs the CodeBlock timers, in ms
MaxFiles == 3        \* largest maxFiles prop given to the Dropzone
MaxCopies == 3       \* CodeBlock copies in flight: pending clipboard writes and timers

-----------------------------------------------------------------------------
(* Values *)

NoUser == "null"
NoFile == [null |-> TRUE]
NoResult == [null |-> TRUE]

Users == {"dev@example.com"}

Routes == {"/", "/auth", "/dashboard", "/analyze"}

\* the ten SelectItem values of the language selector
Languages == {"javascript", "typescript", "python", "java", "cpp", "c",
              "php", "ruby", "go", "rust"}

WhiteSpace == {" ", "\n", "\t"}
CodeChars == {" ", "a"}

HasDot(name) == \E i \in 1..Len(name) : name[i] = "."

RECURSIVE SeqsUpTo(_, _)
SeqsUpTo(S, n) ==
    IF n = 0 THEN {<<>>}
    ELSE LET shorter == SeqsUpTo(S, n - 1)
         IN  shorter \cup {Append(s, c) : s \in shorter, c \in S}

Texts == SeqsUpTo(CodeChars, MaxCodeLen)

\* 10 * 1024 * 1024
MaxFileSize == 10485760

FileNames == {
    <<"a", ".", "J", "s">>,
    <<"a", ".", "t", "x", "t">>,
    <<"a", ".", "j", "s", ".", "t", "x", "t">>,
    <<"g", "o">>,
    <<"a">>,
    <<"a", ".">> }
FileSizes == {MaxFileSize, MaxFileSize + 1}

\* the text of the file of a given name: blank for the dotless names
FileContent(name) == IF HasDot(name) THEN <<"a">> ELSE <<" ">>

\* the files the user may pick
Files == {[name |-> n, size |-> sz, content |-> FileContent(n)] :
              n \in FileNames, sz \in FileSizes}

-----------------------------------------------------------------------------
(* String operations of the file-type check, on sequences of characters *)

UpperCase == <<"A", "B", "C", "D", "E", "F", "G", "H", "I", "J", "K", "L", "M",
               "N", "O", "P", "Q", "R", "S", "T", "U", "V", "W", "X", "Y", "Z">>
LowerCase == <<"a", "b", "c", "d", "e", "f", "g", "h", "i", "j", "k", "l", "m",
               "n", "o", "p", "q", "r", "s", "t", "u", "v", "w", "x", "y", "z">>

\* String.prototype.toLowerCase
toLowerCase(s) ==
    [i \in 1..Len(s) |->
        IF \E k \in 1..Len(UpperCase) : UpperCase[k] = s[i]
        THEN LowerCase[CHOOSE k \in 1..Len(UpperCase) : UpperCase[k] = s[i]]
        ELSE s[i]]

\* String.prototype.split(sep): the segments between the separators,
\* a single segment (the whole string) when there is no separator
RECURSIVE split(_, _)
split(s, sep) ==
    IF \A i \in 1..Len(s) : s[i] # sep
    THEN <<s>>
    ELSE LET k == CHOOSE i \in 1..Len(s) :
                      s[i] = sep /\ \A j \in 1..(i - 1) : s[j] # sep
         IN  <<SubSeq(s, 1, k - 1)>> \o split(SubSeq(s, k + 1, Len(s)), sep)

\* Array.prototype.pop: the last element
pop(arr) == arr[Len(arr)]

\* String.prototype.substring(1)
substring1(s) == SubSeq(s, 2, Len(s))

\* String.prototype.trim
RECURSIVE trim(_)
trim(s) ==
    IF s = <<>> THEN s
    ELSE IF Head(s) \in WhiteSpace THEN trim(Tail(s))
    ELSE IF s[Len(s)] \in WhiteSpace THEN trim(SubSeq(s, 1, Len(s) - 1))
    ELSE s

allowedTypes == <<
    <<".", "j", "s">>, <<".", "t", "s">>, <<".", "j", "s", "x">>,
    <<".", "t", "s", "x">>, <<".", "p", "y">>, <<".", "j", "a", "v", "a">>,
    <<".", "c", "p", "p">>, <<".", "c">>, <<".", "p", "h", "p">>,
    <<".", "r", "b">>, <<".", "g", "o">>, <<".", "r", "s">> >>

\* Array.prototype.includes
includes(arr, x) == \E i \in 1..Len(arr) : arr[i] = x

\* '.' + file.name.split('.').pop()?.toLowerCase()
fileExtension(file) == <<".">> \o toLowerCase(pop(split(file.name, ".")))

\* the keys of langMap, in the order of the object literal
langMapKeys == <<
    <<"j", "s">>, <<"j", "s", "x">>, <<"t", "s">>, <<"t", "s", "x">>,
    <<"p", "y">>, <<"j", "a", "v", "a">>, <<"c", "p", "p">>, <<"c">>,
    <<"p", "h", "p">>, <<"r", "b">>, <<"g", "o">>, <<"r", "s">> >>
\* langMap with the two-letter extensions of Ruby and Rust mapped to themselves
langMapValues_Unmapped == <<
    "javascript", "javascript", "typescript", "typescript",
    "python", "java", "cpp", "c",
    "php", "rb", "go", "rs" >>

\* the values of langMap, in the order of the object literal
langMapValues == <<
    "javascript", "javascript", "typescript", "typescript",
    "python", "java", "cpp", "c",
    "php", "ruby", "go", "rust" >>

\* langMap[ext]; "undefined" when ext is not a key
langMap(ext) ==
    IF includes(langMapKeys, ext)
    THEN langMapValues[CHOOSE i \in 1..Len(langMapKeys) : langMapKeys[i] = ext]
    ELSE "undefined"

-----------------------------------------------------------------------------
(* Notifications (toast calls) *)

ToastInvalidFileType ==
    [title |-> "Invalid file type", variant |-> "destructive",
     description |-> <<"Please upload a supported code file (.js, .ts, .py, .java, etc.)">>]
ToastFileTooLarge ==
    [title |-> "File too large", variant |-> "destructive",
     description |-> <<"Please upload a file smaller than 10MB.">>]
ToastNoCode ==
    [title |-> "No code to analyze", variant |-> "destructive",
     description |-> <<"Please paste code or upload a file first.">>]
ToastAnalysisComplete(result) ==
    [title |-> "Analysis complete!", variant |-> "default",
     description |-> <<"Found", Len(result.problems), "issues with",
                       result.confidence, "% confidence.">>]
ToastAnalysisFailed ==
    [title |-> "Analysis failed", variant |-> "destructive",
     description |-> <<"Something went wrong. Please try again.">>]
ToastCopied ==
    [title |-> "Copied to clipboard", variant |-> "default",
     description |-> <<"Text has been copied to your clipboard.">>]

-----------------------------------------------------------------------------
(* simulateAnalysis: the progress steps and the mock result *)

\* progressSteps with the 60 % step left out
progressSteps_Skip == <<20, 40, 80, 100>>

\* the progress values of progressSteps
progressSteps == <<20, 40, 60, 80, 100>>

\* the object literal returned by simulateAnalysis (the fixes text is kept by
\* its first line)
MockResult ==
    [summary |-> "Found 3 issues: 1 critical security vulnerability, 1 performance issue, and 1 potential bug. Recommended fixes provided.",
     problems |-> << [type |-> "critical", title |-> "XSS Vulnerability", line |-> 23],
                     [type |-> "warning", title |-> "Memory Leak Risk", line |-> 15],
                     [type |-> "info", title |-> "Performance Optimization", line |-> 8] >>,
     fixes |-> "// Fixed code with improvements: ...",
     confidence |-> 94,
     securityIssues |-> 1,
     performanceIssues |-> 1,
     bugCount |-> 1]

\* a result derived from the submitted code: one problem per character
simulateAnalysisResult_FromCode ==
    [MockResult EXCEPT !.problems = SubSeq(@, 1, Len(code)),
                       !.bugCount = Len(code)]

\* what simulateAnalysis returns after its loop
simulateAnalysisResult == MockResult

-----------------------------------------------------------------------------
(* Rendering: the authentication guards of the protected pages *)

\* the guard of Analyze with its two tests in the other order
AnalyzeRender_UserFirst(u, l) ==
    IF u = NoUser THEN "redirect"
    ELSE IF l THEN "loading"
    ELSE "analyze"

\* Analyze: if (loading) ...; if (!user) return <Navigate to="/auth" replace />
AnalyzeRender(u, l) ==
    IF l THEN "loading"
    ELSE IF u = NoUser THEN "redirect"
    ELSE "analyze"

\* Dashboard: the same guard in front of the dashboard body
DashboardRender(u, l) ==
    IF l THEN "loading"
    ELSE IF u = NoUser THEN "redirect"
    ELSE "dashboard"

\* what the page routed at r returns
Render(r, u, l) ==
    CASE r = "/analyze" -> AnalyzeRender(u, l)
      [] r = "/dashboard" -> DashboardRender(u, l)
      [] r = "/" -> "index"
      [] r = "/auth" -> "auth"

\* the status enum of the Analysis interface
Statuses == {"completed", "analyzing", "failed"}

\* getStatusIcon: the icon component of a status
getStatusIcon(status) ==
    CASE status = "completed" -> "CheckCircle"
      [] status = "analyzing" -> "Clock"
      [] status = "failed" -> "AlertTriangle"

\* getStatusBadge: the label of the badge of a status
getStatusBadge(status) ==
    CASE status = "completed" -> "Completed"
      [] status = "analyzing" -> "Analyzing"
      [] status = "failed" -> "Failed"

\* a row that hides the details of failed records only
AnalysisRow_DetailsUnlessFailed(analysis) ==
    [icon |-> getStatusIcon(analysis.status),
     title |-> analysis.title,
     language |-> analysis.language,
     details |-> IF analysis.status # "failed"
                 THEN <<[issues |-> analysis.issuesFound,
                         confidence |-> analysis.confidence]>>
                 ELSE <<>>,
     badge |-> getStatusBadge(analysis.status),
     buttons |-> IF analysis.status # "failed" THEN <<"View Results">> ELSE <<>>]

\* one row of analyses.map(...): icon, title and language, then the issue
\* count and confidence, the badge and the View Results button, the first
\* and the last under {analysis.status === 'completed' && (...)}
\* (the formatted date of the row is left out)
AnalysisRow(analysis) ==
    [icon |-> getStatusIcon(analysis.status),
     title |-> analysis.title,
     language |-> analysis.language,
     details |-> IF analysis.status = "completed"
                 THEN <<[issues |-> analysis.issuesFound,
                         confidence |-> analysis.confidence]>>
                 ELSE <<>>,
     badge |-> getStatusBadge(analysis.status),
     buttons |-> IF analysis.status = "completed" THEN <<"View Results">> ELSE <<>>]

\* the Recent Analyses list of the Dashboard body
RenderRows(v, list) ==
    IF v = "dashboard"
    THEN [i \in 1..Len(list) |-> AnalysisRow(list[i])]
    ELSE <<>>

\* a number: a value, or NaN
Number(n) == [nan |-> FALSE, value |-> n]
NaN == [nan |-> TRUE, value |-> 0]

\* analyses.reduce((sum, a) => sum + a[field], 0)
RECURSIVE reduce(_, _)
reduce(list, field) ==
    IF list = <<>> THEN 0
    ELSE reduce(SubSeq(list, 1, Len(list) - 1), field) + list[Len(list)][field]

\* Math.round(sum / n) for sum >= 0 and n >= 0: the nearest integer, a half
\* rounded up; 0 / 0 is NaN and Math.round(NaN) is NaN
MathRoundOfQuotient(sum, n) ==
    IF n = 0 THEN NaN
    ELSE Number((2 * sum + n) \div (2 * n))

\* x || 0: NaN and 0 are falsy
OrZero(x) == IF x.nan \/ x.value = 0 THEN 0 ELSE x.value

\* statistics over the completed records only
DashboardStats_CompletedOnly(list) ==
    LET completed == SelectSeq(list, LAMBDA a : a.status = "completed")
    IN  [total |-> Len(completed),
         issues |-> reduce(completed, "issuesFound"),
         avgConfidence |-> OrZero(MathRoundOfQuotient(reduce(completed, "confidence"),
                                                      Len(completed)))]

\* the three statistics cards: analyses.length, the sum of issuesFound and
\* Math.round(sum of confidence / analyses.length) || 0
DashboardStats(list) ==
    [total |-> Len(list),
     issues |-> reduce(list, "issuesFound"),
     avgConfidence |-> OrZero(MathRoundOfQuotient(reduce(list, "confidence"), Len(list)))]

NoStats == [null |-> TRUE]

\* the statistics cards of the Dashboard body
RenderStats(v, list) == IF v = "dashboard" THEN DashboardStats(list) ELSE NoStats

\* every state change is followed by a render of the routed page
Rerender ==
    /\ view' = Render(route', user', loading')
    /\ rows' = RenderRows(view', analyses')
    /\ stats' = RenderStats(view', analyses')

-----------------------------------------------------------------------------
(* The Analyze page *)

\* the useState initialisers of Analyze
AnalyzeInitialState ==
    [code |-> <<>>, language |-> "javascript", isAnalyzing |-> FALSE,
     progress |-> 0, analysisResult |-> NoResult, uploadedFile |-> NoFile]

SetPageState(st) ==
    /\ code' = st.code
    /\ language' = st.language
    /\ isAnalyzing' = st.isAnalyzing
    /\ progress' = st.progress
    /\ analysisResult' = st.analysisResult
    /\ uploadedFile' = st.uploadedFile

Event(op, arg) == [op |-> op, arg |-> arg]

RemoveAt(seq, i) == SubSeq(seq, 1, i - 1) \o SubSeq(seq, i + 1, Len(seq))

\* a handleAnalyze call has left the loop of simulateAnalysis and its
\* continuation (a microtask) runs before any other event or timer
ContinuationPending == \E i \in 1..Len(runs) : runs[i].fired = Len(progressSteps)

\* Dashboard has been mounted and its mount effect (useEffect, []) has not
\* run yet; it runs before any other event is handled
MountEffectPending == route = "/dashboard" /\ analyses = <<>>

\* the body of the Analyze page is on screen and the event loop is idle
PageInteractive == view = "analyze" /\ ~ContinuationPending

\* InvalidFileType with a substring test instead of the extension test:
\* any dotted segment of the name may match the allow-list
InvalidFileType_AnySegment(file) ==
    LET segments == split(file.name, ".")
    IN  ~\E k \in 1..Len(segments) :
            includes(allowedTypes, <<".">> \o toLowerCase(segments[k]))

\* !allowedTypes.includes(fileExtension)
InvalidFileType(file) == ~includes(allowedTypes, fileExtension(file))

\* FileTooLarge with the boundary on the wrong side
FileTooLarge_OffByOne(file) == file.size >= 10 * 1024 * 1024

\* file.size > 10 * 1024 * 1024
FileTooLarge(file) == file.size > 10 * 1024 * 1024

\* handleFileUpload, on the change event of the file input, with at most
\* `pending` reads in flight
handleFileUploadWithin(file, pending) ==
    /\ PageInteractive
    /\ lastEvent' = Event("handleFileUpload", file)
    /\ outputs' = <<>>
    /\ IF file = NoFile
       THEN /\ toasts' = <<>>
            /\ UNCHANGED <<pageVars, reads>>
       ELSE IF InvalidFileType(file)
       THEN /\ toasts' = <<ToastInvalidFileType>>
            /\ UNCHANGED <<pageVars, reads>>
       ELSE IF FileTooLarge(file)
       THEN /\ toasts' = <<ToastFileTooLarge>>
            /\ UNCHANGED <<pageVars, reads>>
       ELSE /\ Len(reads) < pending
            /\ uploadedFile' = file
            /\ reads' = Append(reads, [live |-> TRUE, file |-> file])
            /\ toasts' = <<>>
            /\ UNCHANGED <<code, language, isAnalyzing, progress, analysisResult>>
    /\ UNCHANGED <<authVars, route, runs>>
    /\ calls' = <<>>
    /\ UNCHANGED shellVars
    /\ UNCHANGED widgetVars
    /\ Rerender

\* handleFileUpload, on the change event of the file input
handleFileUpload(file) == handleFileUploadWithin(file, MaxReads)

\* reader.onload, when the read of reads[i] has finished
readerOnload(i) ==
    /\ ~ContinuationPending
    /\ ~MountEffectPending
    /\ i \in 1..Len(reads)
    /\ lastEvent' = Event("reader.onload", reads[i].live)
    /\ reads' = RemoveAt(reads, i)
    /\ IF reads[i].live
       THEN LET content == reads[i].file.content
                ext == substring1(fileExtension(reads[i].file))
            IN  /\ code' = content
                /\ language' = IF langMap(ext) # "undefined" THEN langMap(ext)
                               ELSE language
                /\ UNCHANGED <<isAnalyzing, progress, analysisResult, uploadedFile>>
       ELSE UNCHANGED pageVars
    /\ toasts' = <<>>
    /\ outputs' = <<>>
    /\ UNCHANGED <<authVars, route, runs>>
    /\ calls' = <<>>
    /\ UNCHANGED shellVars
    /\ UNCHANGED widgetVars
    /\ Rerender

\* a textarea handler that abandons the pending run when the code is cleared
setCode_Cancels(text) ==
    /\ PageInteractive
    /\ text # code
    /\ code' = text
    /\ lastEvent' = Event("setCode", text)
    /\ toasts' = <<>>
    /\ outputs' = <<>>
    /\ IF trim(text) = <<>>
       THEN /\ runs' = <<>>
            /\ isAnalyzing' = FALSE
       ELSE UNCHANGED <<runs, isAnalyzing>>
    /\ UNCHANGED <<authVars, route, language, progress,
                   analysisResult, uploadedFile, reads>>
    /\ calls' = <<>>
    /\ UNCHANGED shellVars
    /\ UNCHANGED widgetVars
    /\ Rerender

\* the textarea's onChange: setCode(e.target.value)
setCode(text) ==
    /\ PageInteractive
    /\ text # code
    /\ code' = text
    /\ lastEvent' = Event("setCode", text)
    /\ toasts' = <<>>
    /\ outputs' = <<>>
    /\ UNCHANGED <<authVars, route, language, isAnalyzing, progress,
                   analysisResult, uploadedFile, reads, runs>>
    /\ calls' = <<>>
    /\ UNCHANGED shellVars
    /\ UNCHANGED widgetVars
    /\ Rerender

\* the language Select's onValueChange: setLanguage
setLanguage(value) ==
    /\ PageInteractive
    /\ value # language
    /\ language' = value
    /\ lastEvent' = Event("setLanguage", value)
    /\ toasts' = <<>>
    /\ outputs' = <<>>
    /\ UNCHANGED <<authVars, route, code, isAnalyzing, progress,
                   analysisResult, uploadedFile, reads, runs>>
    /\ calls' = <<>>
    /\ UNCHANGED shellVars
    /\ UNCHANGED widgetVars
    /\ Rerender

\* an Analyze button that is never disabled
AnalyzeButtonEnabled_Always == TRUE

\* the Analyze button is rendered with disabled={isAnalyzing}
AnalyzeButtonEnabled == ~isAnalyzing

\* a test for the empty string only: whitespace counts as code
NoCode_EmptyOnly(text) == text = <<>>

\* !code.trim(): the code is empty or only whitespace
NoCode(text) == trim(text) = <<>>

\* handleAnalyze without setAnalysisResult(null): the result of the earlier
\* run stays while the new run is in progress
handleAnalyze_KeepResult ==
    /\ PageInteractive
    /\ AnalyzeButtonEnabled
    /\ lastEvent' = Event("handleAnalyze", code)
    /\ outputs' = <<>>
    /\ IF NoCode(code)
       THEN /\ toasts' = <<ToastNoCode>>
            /\ UNCHANGED <<pageVars, runs>>
       ELSE /\ Len(runs) < MaxRuns
            /\ isAnalyzing' = TRUE
            /\ progress' = 0
            /\ runs' = Append(runs, [live |-> TRUE, fired |-> 0])
            /\ toasts' = <<>>
            /\ UNCHANGED <<code, language, uploadedFile, analysisResult>>
    /\ UNCHANGED <<authVars, route, reads>>
    /\ calls' = <<>>
    /\ UNCHANGED shellVars
    /\ UNCHANGED widgetVars
    /\ Rerender

\* handleAnalyze up to its await: the click on the Analyze button
handleAnalyze ==
    /\ PageInteractive
    /\ AnalyzeButtonEnabled
    /\ lastEvent' = Event("handleAnalyze", code)
    /\ outputs' = <<>>
    /\ IF NoCode(code)
       THEN /\ toasts' = <<ToastNoCode>>
            /\ UNCHANGED <<pageVars, runs>>
       ELSE /\ Len(runs) < MaxRuns
            /\ isAnalyzing' = TRUE
            /\ progress' = 0
            /\ analysisResult' = NoResult
            /\ runs' = Append(runs, [live |-> TRUE, fired |-> 0])
            /\ toasts' = <<>>
            /\ UNCHANGED <<code, language, uploadedFile>>
    /\ UNCHANGED <<authVars, route, reads>>
    /\ calls' = <<>>
    /\ UNCHANGED shellVars
    /\ UNCHANGED widgetVars
    /\ Rerender

\* simulateAnalysis: one 800 ms timer of the loop expires, setProgress(step.progress)
simulateAnalysisStep(i) ==
    /\ ~ContinuationPending
    /\ ~MountEffectPending
    /\ i \in 1..Len(runs)
    /\ runs[i].fired < Len(progressSteps)
    /\ runs' = [runs EXCEPT ![i].fired = @ + 1]
    /\ IF runs[i].live
       THEN progress' = progressSteps[runs[i].fired + 1]
       ELSE UNCHANGED progress
    /\ lastEvent' = Event("setTimeout", runs[i].fired + 1)
    /\ toasts' = <<>>
    /\ outputs' = <<>>
    /\ UNCHANGED <<authVars, route, code, language, isAnalyzing,
                   analysisResult, uploadedFile, reads>>
    /\ calls' = <<>>
    /\ UNCHANGED shellVars
    /\ UNCHANGED widgetVars
    /\ Rerender

\* SettleSuccess without the finally block
SettleSuccess_NoFinally(live, result) ==
    IF live
    THEN /\ analysisResult' = result
         /\ UNCHANGED isAnalyzing
    ELSE UNCHANGED <<analysisResult, isAnalyzing>>

\* the state updates of handleAnalyze after a successful await:
\* setAnalysisResult(result) in the try block, setIsAnalyzing(false) in finally;
\* the setters of an unmounted page change nothing
SettleSuccess(live, result) ==
    IF live
    THEN /\ analysisResult' = result
         /\ isAnalyzing' = FALSE
    ELSE UNCHANGED <<analysisResult, isAnalyzing>>

\* a call with its argument (a record: a state value, a toast, a target)
Call(fn, arg) == [call |-> fn, arg |-> arg]

\* handleAnalyze after a successful await with its calls in another order:
\* the notification first, the result after it
handleAnalyzeResumeCalls_ToastFirst(result) ==
    << Call("toast", ToastAnalysisComplete(result)),
       Call("setAnalysisResult", result),
       Call("setIsAnalyzing", [value |-> FALSE]) >>

\* the calls of handleAnalyze after a successful await, in program order:
\* setAnalysisResult(result), toast({...}) in the try block, then
\* setIsAnalyzing(false) in the finally block
handleAnalyzeResumeCalls(result) ==
    << Call("setAnalysisResult", result),
       Call("toast", ToastAnalysisComplete(result)),
       Call("setIsAnalyzing", [value |-> FALSE]) >>

\* handleAnalyze after its await: simulateAnalysis has returned its result
handleAnalyzeResume(i) ==
    /\ i \in 1..Len(runs)
    /\ runs[i].fired = Len(progressSteps)
    /\ LET result == simulateAnalysisResult
       IN  /\ SettleSuccess(runs[i].live, result)
           /\ toasts' = <<ToastAnalysisComplete(result)>>
           /\ calls' = handleAnalyzeResumeCalls(result)
    /\ runs' = RemoveAt(runs, i)
    /\ lastEvent' = Event("handleAnalyze.resume", runs[i].live)
    /\ outputs' = <<>>
    /\ UNCHANGED shellVars
    /\ UNCHANGED <<authVars, route, code, language, progress, uploadedFile, reads>>
    /\ UNCHANGED widgetVars
    /\ Rerender

\* a catch block that starts the analysis again instead of giving up
SettleFailure_Retry(i) ==
    /\ runs' = [runs EXCEPT ![i].fired = 0]
    /\ UNCHANGED <<analysisResult, isAnalyzing>>

\* the state updates of handleAnalyze after a rejected await: the catch block
\* sets nothing, the finally block calls setIsAnalyzing(false)
SettleFailure(i) ==
    /\ runs' = RemoveAt(runs, i)
    /\ IF runs[i].live
       THEN /\ isAnalyzing' = FALSE
            /\ UNCHANGED analysisResult
       ELSE UNCHANGED <<analysisResult, isAnalyzing>>

\* handleAnalyze after its await when the awaited promise rejects: the catch
\* and finally blocks.  simulateAnalysis as written never rejects; this step
\* belongs to FaultSpec only, which injects the rejection.
handleAnalyzeCatch(i) ==
    /\ ~ContinuationPending
    /\ ~MountEffectPending
    /\ i \in 1..Len(runs)
    /\ runs[i].fired < Len(progressSteps)
    /\ SettleFailure(i)
    /\ toasts' = <<ToastAnalysisFailed>>
    /\ lastEvent' = Event("handleAnalyze.catch", runs[i].live)
    /\ outputs' = <<>>
    /\ calls' = << Call("toast", ToastAnalysisFailed), Call("setIsAnalyzing", [value |-> FALSE]) >>
    /\ UNCHANGED shellVars
    /\ UNCHANGED <<authVars, route, code, language, progress, uploadedFile, reads>>
    /\ UNCHANGED widgetVars
    /\ Rerender

\* the three blocks of the Analyze page that depend on the run:
\* {isAnalyzing && (<Progress .../>)}, {!analysisResult && !isAnalyzing && (...)},
\* {analysisResult && (<Tabs ...>)}
ProgressIndicatorRendered == view = "analyze" /\ isAnalyzing
ResultsPlaceholderRendered == view = "analyze" /\ analysisResult = NoResult /\ ~isAnalyzing
ResultsTabsRendered == view = "analyze" /\ analysisResult # NoResult

\* copyToClipboard(analysisResult.fixes), from the two copy buttons of the Fixes tab
copyToClipboard ==
    /\ PageInteractive
    /\ analysisResult # NoResult
    /\ outputs' = <<[kind |-> "clipboard.writeText", text |-> analysisResult.fixes]>>
    /\ toasts' = <<ToastCopied>>
    /\ lastEvent' = Event("copyToClipboard", analysisResult.fixes)
    /\ UNCHANGED <<authVars, route, pageVars, reads, runs>>
    /\ calls' = <<>>
    /\ UNCHANGED shellVars
    /\ UNCHANGED widgetVars
    /\ Rerender

\* a file name that ends with the language detected from the uploaded file
downloadName_LanguageOfFile ==
    << IF uploadedFile # NoFile THEN uploadedFile.name ELSE "code",
       "_fixed.",
       IF uploadedFile # NoFile /\ langMap(substring1(fileExtension(uploadedFile))) # "undefined"
       THEN langMap(substring1(fileExtension(uploadedFile)))
       ELSE language >>

\* a.download = `${uploadedFile?.name || 'code'}_fixed.${language}`, as the
\* parts of the template
downloadName ==
    << IF uploadedFile # NoFile THEN uploadedFile.name ELSE "code",
       "_fixed.",
       language >>

\* downloadPatch without its first line: a download is made of whatever
\* analysisResult holds
downloadPatchCall_NoNullCheck ==
    /\ PageInteractive
    /\ outputs' = <<[kind |-> "download",
                     text |-> IF analysisResult = NoResult THEN "undefined"
                              ELSE analysisResult.fixes,
                     download |-> downloadName]>>
    /\ toasts' = <<>>
    /\ lastEvent' = Event("downloadPatch", language)
    /\ calls' = <<>>
    /\ UNCHANGED <<authVars, route, pageVars, reads, runs>>
    /\ UNCHANGED shellVars
    /\ UNCHANGED widgetVars
    /\ Rerender

\* a call of downloadPatch: if (!analysisResult) return; otherwise one text
\* download of analysisResult.fixes
downloadPatchCall ==
    /\ PageInteractive
    /\ outputs' = IF analysisResult = NoResult THEN <<>>
                  ELSE <<[kind |-> "download",
                          text |-> analysisResult.fixes,
                          download |-> downloadName]>>
    /\ toasts' = <<>>
    /\ lastEvent' = Event("downloadPatch", language)
    /\ UNCHANGED <<authVars, route, pageVars, reads, runs>>
    /\ calls' = <<>>
    /\ UNCHANGED shellVars
    /\ UNCHANGED widgetVars
    /\ Rerender

\* downloadPatch, from the Download Patch button of the Fixes tab, which is
\* rendered inside {analysisResult && (...)}
downloadPatch ==
    /\ analysisResult # NoResult
    /\ downloadPatchCall

-----------------------------------------------------------------------------
(* The Dashboard page *)

\* the mockAnalyses literal of the mount effect
mockAnalyses ==
    << [id |-> "1", title |-> "UserProfile.tsx", language |-> "TypeScript",
        status |-> "completed", createdAt |-> "2024-01-15T10:30:00Z",
        issuesFound |-> 4, confidence |-> 95],
       [id |-> "2", title |-> "auth-service.js", language |-> "JavaScript",
        status |-> "completed", createdAt |-> "2024-01-14T15:45:00Z",
        issuesFound |-> 2, confidence |-> 87],
       [id |-> "3", title |-> "database-utils.py", language |-> "Python",
        status |-> "analyzing", createdAt |-> "2024-01-14T09:20:00Z",
        issuesFound |-> 0, confidence |-> 0] >>

\* the mount effect of Dashboard for a given list of records: setAnalyses(list)
setAnalyses(list) ==
    /\ MountEffectPending
    /\ analyses' = list
    /\ lastEvent' = Event("useEffect", "Dashboard")
    /\ toasts' = <<>>
    /\ outputs' = <<>>
    /\ calls' = <<>>
    /\ UNCHANGED <<authVars, route, pageVars, reads, runs, headerVars, indexVars>>
    /\ UNCHANGED widgetVars
    /\ Rerender

\* the mount effect of Dashboard: useEffect(() => { setAnalyses(mockAnalyses) }, [])
dashboardEffect == setAnalyses(mockAnalyses)

\* history records other than the mock ones: every status, with and without
\* issues and confidence
AnalysisRecords ==
    [id : {"1"}, title : {"a.ts"}, language : {"TypeScript"}, status : Statuses,
     createdAt : {"2024-01-15T10:30:00Z"}, issuesFound : {0, 4}, confidence : {0, 95}]

AnalysisLists == SeqsUpTo(AnalysisRecords, MaxAnalyses) \ {<<>>}

-----------------------------------------------------------------------------
(* Authentication context and routing *)

\* the pages whose body starts with <Header />
HeaderMounted(v) == v \in {"analyze", "dashboard", "index"}

\* the Header is part of the page body: it keeps its state only while the same
\* page keeps rendering its body, and a Header that enters starts with
\* useState(false)
HeaderRemount ==
    isMenuOpen' = IF /\ route' = route
                     /\ HeaderMounted(view)
                     /\ HeaderMounted(Render(route', user', loading'))
                  THEN isMenuOpen
                  ELSE FALSE

\* the auth context publishes a new (user, loading) pair
authStateChange(u, l) ==
    /\ ~ContinuationPending
    /\ ~MountEffectPending
    /\ <<u, l>> # <<user, loading>>
    /\ user' = u
    /\ loading' = l
    /\ lastEvent' = Event("authStateChange", <<u, l>>)
    /\ toasts' = <<>>
    /\ outputs' = <<>>
    /\ calls' = <<>>
    /\ UNCHANGED <<route, pageVars, reads, runs, analyses, signOuts, indexVars>>
    /\ HeaderRemount
    /\ UNCHANGED widgetVars
    /\ Rerender

\* an unmount that leaves the pending callbacks bound to the page on screen
Stale_Alive(records) == records

\* the callbacks pending at an unmount belong to the unmounted instance: they
\* still run, and their state setters change nothing
Stale(records) == [i \in 1..Len(records) |-> [records[i] EXCEPT !.live = FALSE]]

\* the useState initialisers of Index and of the SampleAnalysisDrawer it renders
IndexInitialState ==
    [showSampleDrawer |-> FALSE, isAnalyzing |-> FALSE, showResults |-> FALSE]

SetIndexState(st) ==
    /\ showSampleDrawer' = st.showSampleDrawer
    /\ sampleIsAnalyzing' = st.isAnalyzing
    /\ showResults' = st.showResults

\* the router shows the page of route `to`: a page that leaves the screen is
\* unmounted and its state discarded (its timers and file reads stay
\* scheduled), a page that enters is mounted with its initial state
ChangeRoute(to) ==
    /\ route' = to
    /\ IF route = "/analyze" /\ to # "/analyze"
       THEN /\ SetPageState(AnalyzeInitialState)
            /\ reads' = Stale(reads)
            /\ runs' = Stale(runs)
       ELSE IF route # "/analyze" /\ to = "/analyze"
       THEN /\ SetPageState(AnalyzeInitialState)
            /\ UNCHANGED <<reads, runs>>
       ELSE UNCHANGED <<pageVars, reads, runs>>
    /\ IF route = "/" /\ to # "/"
       THEN /\ SetIndexState(IndexInitialState)
            /\ sampleRuns' = Stale(sampleRuns)
       ELSE IF route # "/" /\ to = "/"
       THEN /\ SetIndexState(IndexInitialState)
            /\ UNCHANGED sampleRuns
       ELSE UNCHANGED indexVars
    /\ IF route = "/dashboard" /\ to # "/dashboard"
       THEN analyses' = <<>>
       ELSE IF route # "/dashboard" /\ to = "/dashboard"
       THEN analyses' = <<>>
       ELSE UNCHANGED analyses

\* the links of the Header in front of the page bodies
HeaderLinks ==
    IF user # NoUser THEN {"/", "/dashboard", "/analyze"} ELSE {"/", "/auth"}

\* the user follows a <Link> of the Header
followLink(to) ==
    /\ ~ContinuationPending
    /\ ~MountEffectPending
    /\ view \in {"analyze", "dashboard", "index"}
    /\ to \in HeaderLinks
    /\ to # route
    /\ ChangeRoute(to)
    /\ lastEvent' = Event("Link", to)
    /\ toasts' = <<>>
    /\ outputs' = <<>>
    /\ calls' = <<>>
    /\ UNCHANGED <<authVars, signOuts>>
    /\ HeaderRemount
    /\ UNCHANGED widgetVars
    /\ Rerender

\* <Navigate to="/auth" replace />, rendered by a guard for a missing user
navigateToAuth ==
    /\ ~ContinuationPending
    /\ ~MountEffectPending
    /\ view = "redirect"
    /\ ChangeRoute("/auth")
    /\ lastEvent' = Event("Navigate", <<"/auth", "replace">>)
    /\ toasts' = <<>>
    /\ outputs' = <<>>
    /\ calls' = <<>>
    /\ UNCHANGED <<authVars, signOuts>>
    /\ HeaderRemount
    /\ UNCHANGED widgetVars
    /\ Rerender

\* the auth page sends the user on to another route
authPageNavigate(to) ==
    /\ ~ContinuationPending
    /\ route = "/auth"
    /\ to # "/auth"
    /\ ChangeRoute(to)
    /\ lastEvent' = Event("authPage", to)
    /\ toasts' = <<>>
    /\ outputs' = <<>>
    /\ calls' = <<>>
    /\ UNCHANGED <<authVars, signOuts>>
    /\ HeaderRemount
    /\ UNCHANGED widgetVars
    /\ Rerender

-----------------------------------------------------------------------------
(* The Header *)

ToastSignedOut ==
    [title |-> "Signed out successfully", variant |-> "default",
     description |-> <<"You've been signed out of your account.">>]
ToastSignOutError ==
    [title |-> "Error signing out", variant |-> "destructive",
     description |-> <<"Something went wrong. Please try again.">>]

\* no task queued ahead of the next event and a Header on screen
HeaderInteractive ==
    /\ ~ContinuationPending
    /\ ~MountEffectPending
    /\ HeaderMounted(view)

\* the mobile navigation block: {isMenuOpen && (...)}
MobileNavRendered == HeaderMounted(view) /\ isMenuOpen

\* a menu button that only opens
toggleMenuValue_OpenOnly == TRUE

\* the argument of setIsMenuOpen in the menu button's onClick: !isMenuOpen
toggleMenuValue == ~isMenuOpen

\* the mobile menu button: onClick={() => setIsMenuOpen(!isMenuOpen)}
toggleMenu ==
    /\ HeaderInteractive
    /\ isMenuOpen' = toggleMenuValue
    /\ lastEvent' = Event("setIsMenuOpen", toggleMenuValue)
    /\ toasts' = <<>>
    /\ outputs' = <<>>
    /\ calls' = <<>>
    /\ UNCHANGED <<authVars, route, pageVars, reads, runs, analyses, signOuts, indexVars>>
    /\ UNCHANGED widgetVars
    /\ Rerender

\* handleSignOut up to its await: a click on a Sign Out button, rendered for a user
handleSignOut ==
    /\ HeaderInteractive
    /\ user # NoUser
    /\ signOuts < MaxSignOuts
    /\ signOuts' = signOuts + 1
    /\ lastEvent' = Event("handleSignOut", user)
    /\ toasts' = <<>>
    /\ outputs' = <<>>
    /\ calls' = <<>>
    /\ UNCHANGED <<authVars, route, pageVars, reads, runs, analyses, isMenuOpen, indexVars>>
    /\ UNCHANGED widgetVars
    /\ Rerender

\* signOut() of the auth context has resolved: the session is gone
signOutResolved ==
    /\ user' = NoUser
    /\ UNCHANGED loading

\* signOut() of the auth context has rejected: the session is as it was
signOutRejected == UNCHANGED authVars

\* a catch block that navigates to '/' as the try block does
handleSignOutCatchRoute_Navigate == "/"

\* the route after the catch block of handleSignOut, which does not navigate
handleSignOutCatchRoute == route

\* handleSignOut after a successful await: toast({...}), then navigate('/')
handleSignOutResume ==
    /\ ~ContinuationPending
    /\ ~MountEffectPending
    /\ signOuts > 0
    /\ signOuts' = signOuts - 1
    /\ signOutResolved
    /\ toasts' = <<ToastSignedOut>>
    /\ calls' = << Call("toast", ToastSignedOut), Call("navigate", [to |-> "/"]) >>
    /\ ChangeRoute("/")
    /\ lastEvent' = Event("handleSignOut.resume", "/")
    /\ outputs' = <<>>
    /\ HeaderRemount
    /\ UNCHANGED widgetVars
    /\ Rerender

\* handleSignOut after a rejected await: the catch block, one destructive toast
handleSignOutCatch ==
    /\ ~ContinuationPending
    /\ ~MountEffectPending
    /\ signOuts > 0
    /\ signOuts' = signOuts - 1
    /\ signOutRejected
    /\ toasts' = <<ToastSignOutError>>
    /\ calls' = << Call("toast", ToastSignOutError) >>
    /\ ChangeRoute(handleSignOutCatchRoute)
    /\ lastEvent' = Event("handleSignOut.catch", route)
    /\ outputs' = <<>>
    /\ HeaderRemount
    /\ UNCHANGED widgetVars
    /\ Rerender

-----------------------------------------------------------------------------
(* The Index page and its SampleAnalysisDrawer *)

\* the props Index passes to its Header and to its SampleAnalysisDrawer
HeaderProps == [onPreviewToggle |-> TRUE, showPreview |-> showSampleDrawer]
DrawerProps == [isOpen |-> showSampleDrawer]

\* the label of the Header's preview button: {showPreview ? "Hide" : "Preview"} Sample
PreviewButtonLabel ==
    <<IF HeaderProps.showPreview THEN "Hide" ELSE "Preview", "Sample">>

\* the drawer is on screen: isOpen ? "translate-y-0" : "-translate-y-full"
DrawerOpen == view = "index" /\ DrawerProps.isOpen

\* the Index page is on screen and the event loop is idle
IndexInteractive == view = "index" /\ ~ContinuationPending

\* a preview button that only opens the drawer
onPreviewToggleValue_OpenOnly == TRUE

\* the argument of setShowSampleDrawer in onPreviewToggle: !showSampleDrawer
onPreviewToggleValue == ~showSampleDrawer

\* the Header's preview button: onPreviewToggle={() => setShowSampleDrawer(!showSampleDrawer)}
onPreviewToggle ==
    /\ IndexInteractive
    /\ showSampleDrawer' = onPreviewToggleValue
    /\ lastEvent' = Event("onPreviewToggle", onPreviewToggleValue)
    /\ toasts' = <<>>
    /\ outputs' = <<>>
    /\ calls' = <<>>
    /\ UNCHANGED <<authVars, route, pageVars, reads, runs, analyses, headerVars,
                   sampleIsAnalyzing, showResults, sampleRuns>>
    /\ UNCHANGED widgetVars
    /\ Rerender

\* the two buttons of the page body that open the drawer
TrySampleButtons == {"Try Sample Analysis", "Try Sample First"}

\* "Try Sample Analysis" and "Try Sample First": onClick={() => setShowSampleDrawer(true)}
trySample(button) ==
    /\ IndexInteractive
    /\ showSampleDrawer' = TRUE
    /\ lastEvent' = Event("trySample", button)
    /\ toasts' = <<>>
    /\ outputs' = <<>>
    /\ calls' = <<>>
    /\ UNCHANGED <<authVars, route, pageVars, reads, runs, analyses, headerVars,
                   sampleIsAnalyzing, showResults, sampleRuns>>
    /\ UNCHANGED widgetVars
    /\ Rerender

\* the drawer's close button: onClose={() => setShowSampleDrawer(false)}
onClose ==
    /\ IndexInteractive
    /\ showSampleDrawer' = FALSE
    /\ lastEvent' = Event("onClose", FALSE)
    /\ toasts' = <<>>
    /\ outputs' = <<>>
    /\ calls' = <<>>
    /\ UNCHANGED <<authVars, route, pageVars, reads, runs, analyses, headerVars,
                   sampleIsAnalyzing, showResults, sampleRuns>>
    /\ UNCHANGED widgetVars
    /\ Rerender

\* a Run Analysis button that is never disabled
RunAnalysisEnabled_Always == TRUE

\* the Run Analysis button is rendered with disabled={isAnalyzing}
RunAnalysisEnabled == ~sampleIsAnalyzing

\* runAnalysis up to its await: the click on Run Analysis
runAnalysis ==
    /\ IndexInteractive
    /\ RunAnalysisEnabled
    /\ Len(sampleRuns) < MaxSampleRuns
    /\ sampleIsAnalyzing' = TRUE
    /\ showResults' = FALSE
    /\ sampleRuns' = Append(sampleRuns, [live |-> TRUE])
    /\ lastEvent' = Event("runAnalysis", <<>>)
    /\ toasts' = <<>>
    /\ outputs' = <<>>
    /\ calls' = <<>>
    /\ UNCHANGED <<authVars, route, pageVars, reads, runs, analyses, headerVars,
                   showSampleDrawer>>
    /\ UNCHANGED widgetVars
    /\ Rerender

\* a continuation of runAnalysis that hides the drawer's panels when the
\* drawer has been closed in the meantime
SettleSample_ResetWhenClosed(live) ==
    IF live
    THEN /\ sampleIsAnalyzing' = FALSE
         /\ showResults' = showSampleDrawer
    ELSE UNCHANGED <<sampleIsAnalyzing, showResults>>

\* the state updates of runAnalysis after its await: setIsAnalyzing(false),
\* setShowResults(true); the setters of an unmounted drawer change nothing
SettleSample(live) ==
    IF live
    THEN /\ sampleIsAnalyzing' = FALSE
         /\ showResults' = TRUE
    ELSE UNCHANGED <<sampleIsAnalyzing, showResults>>

\* runAnalysis after its await: the 2000 ms timer of the oldest pending call
\* has expired
runAnalysisResume ==
    /\ ~ContinuationPending
    /\ ~MountEffectPending
    /\ sampleRuns # <<>>
    /\ SettleSample(Head(sampleRuns).live)
    /\ sampleRuns' = Tail(sampleRuns)
    /\ calls' = << Call("setIsAnalyzing", [value |-> FALSE]), Call("setShowResults", [value |-> TRUE]) >>
    /\ lastEvent' = Event("runAnalysis.resume", Head(sampleRuns).live)
    /\ toasts' = <<>>
    /\ outputs' = <<>>
    /\ UNCHANGED <<authVars, route, pageVars, reads, runs, analyses, headerVars,
                   showSampleDrawer>>
    /\ UNCHANGED widgetVars
    /\ Rerender

\* the texts of the drawer's copy buttons: the sample code, and the fixes
\* inside the results tabs
DrawerCopyTexts ==
    {"sampleCode"} \cup (IF showResults THEN {"sampleAnalysis.fixes"} ELSE {})

\* copyToClipboard of SampleAnalysisDrawer: navigator.clipboard.writeText(text)
drawerCopyToClipboard(text) ==
    /\ IndexInteractive
    /\ text \in DrawerCopyTexts
    /\ outputs' = <<[kind |-> "clipboard.writeText", text |-> text]>>
    /\ lastEvent' = Event("SampleAnalysisDrawer.copyToClipboard", text)
    /\ toasts' = <<>>
    /\ calls' = <<>>
    /\ UNCHANGED <<authVars, route, pageVars, reads, runs, shellVars>>
    /\ UNCHANGED widgetVars
    /\ Rerender

\* the panels rendered in the drawer's Analysis Results card
DrawerPanels ==
    (IF sampleIsAnalyzing THEN {"analyzing"} ELSE {})
    \cup (IF showResults THEN {"results"} ELSE {})
    \cup (IF ~sampleIsAnalyzing /\ ~showResults THEN {"placeholder"} ELSE {})

-----------------------------------------------------------------------------
(* Specifications *)

Init ==
    /\ user \in Users \cup {NoUser}
    /\ loading \in BOOLEAN
    /\ route \in Routes
    /\ view = Render(route, user, loading)
    /\ code = AnalyzeInitialState.code
    /\ language = AnalyzeInitialState.language
    /\ isAnalyzing = AnalyzeInitialState.isAnalyzing
    /\ progress = AnalyzeInitialState.progress
    /\ analysisResult = AnalyzeInitialState.analysisResult
    /\ uploadedFile = AnalyzeInitialState.uploadedFile
    /\ reads = <<>>
    /\ runs = <<>>
    /\ toasts = <<>>
    /\ outputs = <<>>
    /\ lastEvent = Event("init", <<>>)
    /\ calls = <<>>
    /\ analyses = <<>>
    /\ isMenuOpen = FALSE
    /\ signOuts = 0
    /\ showSampleDrawer = IndexInitialState.showSampleDrawer
    /\ sampleIsAnalyzing = IndexInitialState.isAnalyzing
    /\ showResults = IndexInitialState.showResults
    /\ sampleRuns = <<>>
    /\ rows = RenderRows(view, analyses)
    /\ stats = RenderStats(view, analyses)
    /\ copied = FALSE
    /\ copyWrites = 0
    /\ copyTimers = <<>>
    /\ acceptedFiles = <<>>
    /\ maxFiles = 1

\* the events of the mounted Analyze page, for the files the user may pick,
\* the texts they may type and the languages they may select
PageEvents(files, texts, languages) ==
    \/ \E file \in files \cup {NoFile} : handleFileUpload(file)
    \/ \E i \in 1..MaxReads : readerOnload(i)
    \/ \E text \in texts : setCode(text)
    \/ \E value \in languages : setLanguage(value)
    \/ handleAnalyze
    \/ \E i \in 1..MaxRuns : simulateAnalysisStep(i)
    \/ \E i \in 1..MaxRuns : handleAnalyzeResume(i)
    \/ copyToClipboard
    \/ downloadPatch

PageNext == PageEvents(Files, Texts, Languages)

\* the files picked in the runs of the whole application: one accepted, one rejected
SomeFiles ==
    {f \in Files : /\ f.name \in {<<"a", ".", "J", "s">>, <<"a", ".", "t", "x", "t">>}
                   /\ f.size = MaxFileSize}

\* the languages selected by hand in the runs of the whole application
SomeLanguages == {"javascript", "python"}

\* the texts typed in the runs of the whole application: none and one to analyze
SomeTexts == {<<>>, <<"a">>}

\* the page events explored together with navigation, sign-in and sign-out
\* and under fairness
SomePageNext == PageEvents(SomeFiles, SomeTexts, SomeLanguages)

Next ==
    \/ SomePageNext
    \/ \E u \in Users \cup {NoUser}, l \in BOOLEAN : authStateChange(u, l)
    \/ \E to \in Routes : followLink(to)
    \/ navigateToAuth
    \/ \E to \in Routes : authPageNavigate(to)
    \/ dashboardEffect

\* the timers of pending runs expire and awaited results are delivered
TimersFire ==
    /\ \A i \in 1..MaxRuns : WF_vars(simulateAnalysisStep(i))
    /\ \A i \in 1..MaxRuns : WF_vars(handleAnalyzeResume(i))

Spec == Init /\ [][Next]_vars

\* the events explored under fairness: runs, typing and navigation. File
\* reads are left to FairPageSpec: reader.onload assigns code, language and
\* uploadedFile and never a run's state
FairNext ==
    \/ \E text \in SomeTexts : setCode(text)
    \/ \E value \in SomeLanguages : setLanguage(value)
    \/ handleAnalyze
    \/ \E i \in 1..MaxRuns : simulateAnalysisStep(i)
    \/ \E i \in 1..MaxRuns : handleAnalyzeResume(i)
    \/ copyToClipboard
    \/ downloadPatch
    \/ \E u \in Users \cup {NoUser}, l \in BOOLEAN : authStateChange(u, l)
    \/ \E to \in Routes : followLink(to)
    \/ navigateToAuth
    \/ \E to \in Routes : authPageNavigate(to)
    \/ dashboardEffect

\* React runs the mount effect of a page it has mounted
EffectsRun == WF_vars(dashboardEffect)

FairSpec == Init /\ [][FairNext]_vars /\ TimersFire /\ EffectsRun

\* the Analyze page of a signed-in user, left mounted
PageInit ==
    /\ Init
    /\ route = "/analyze"
    /\ user \in Users
    /\ loading = FALSE

PageSpec == PageInit /\ [][PageNext]_vars

FairPageSpec == PageInit /\ [][SomePageNext]_vars /\ TimersFire

\* files picked one after the other: three accepted files of different
\* extensions and contents, and one of a type that is rejected
UploadFiles ==
    { [name |-> <<"a", ".", "p", "y">>, size |-> 1, content |-> <<"a">>],
      [name |-> <<"b", ".", "r", "b">>, size |-> 2, content |-> <<"a", "a">>],
      [name |-> <<"c", ".", "g", "o">>, size |-> 1, content |-> <<" ">>],
      [name |-> <<"d", ".", "t", "x", "t">>, size |-> 1, content |-> <<"a", " ">>] }

\* the mounted Analyze page of a user who only picks files: every pick
\* starts its own FileReader, and the reads finish in any order
UploadNext ==
    \/ \E file \in UploadFiles \cup {NoFile} : handleFileUploadWithin(file, MaxUploads)
    \/ \E i \in 1..MaxUploads : readerOnload(i)

UploadSpec == PageInit /\ [][UploadNext]_vars

\* one file for every entry of the allow-list, a file with an upper-case
\* extension and a rejected one, and a file whose name is an extension
AllowListFiles ==
    {[name |-> <<"a">> \o allowedTypes[i], size |-> 1, content |-> <<"a">>] :
         i \in 1..Len(allowedTypes)}
    \cup SomeFiles
    \cup {f \in Files : f.name = <<"g", "o">> /\ f.size = MaxFileSize}

\* the mounted Analyze page of a user who picks files and selects languages
LanguageNext ==
    \/ \E file \in AllowListFiles : handleFileUpload(file)
    \/ \E i \in 1..MaxReads : readerOnload(i)
    \/ \E value \in Languages : setLanguage(value)

LanguageSpec == PageInit /\ [][LanguageNext]_vars

\* the mounted Analyze page with downloadPatch called whether or not its
\* button is rendered
DirectNext ==
    \/ PageNext
    \/ downloadPatchCall

DirectSpec == PageInit /\ [][DirectNext]_vars

\* the Dashboard given any list of history records by its mount effect
RowInit ==
    /\ Init
    /\ route = "/dashboard"

RowNext ==
    \/ \E list \in AnalysisLists : setAnalyses(list)
    \/ \E u \in Users \cup {NoUser}, l \in BOOLEAN : authStateChange(u, l)
    \/ toggleMenu

RowSpec == RowInit /\ [][RowNext]_vars

\* the Dashboard given the mock records of its mount effect or other lists
StatsNext ==
    \/ dashboardEffect
    \/ RowNext

StatsSpec == RowInit /\ [][StatsNext]_vars

\* the events of the Header
HeaderEvents ==
    \/ toggleMenu
    \/ handleSignOut
    \/ handleSignOutResume
    \/ handleSignOutCatch

\* the events of the Index page and of its drawer
IndexEvents ==
    \/ onPreviewToggle
    \/ \E button \in TrySampleButtons : trySample(button)
    \/ onClose
    \/ runAnalysis
    \/ runAnalysisResume
    \/ \E text \in {"sampleCode", "sampleAnalysis.fixes"} : drawerCopyToClipboard(text)

\* the pages around the Analyze page, with navigation, sign-in and sign-out
ShellNext ==
    \/ HeaderEvents
    \/ IndexEvents
    \/ dashboardEffect
    \/ \E u \in Users \cup {NoUser}, l \in BOOLEAN : authStateChange(u, l)
    \/ \E to \in Routes : followLink(to)
    \/ navigateToAuth
    \/ \E to \in Routes : authPageNavigate(to)

ShellSpec == Init /\ [][ShellNext]_vars

\* the timer of a pending runAnalysis call expires
SampleTimersFire == WF_vars(runAnalysisResume)

\* the Index page, left mounted
IndexInit ==
    /\ Init
    /\ route = "/"

IndexNext ==
    \/ IndexEvents
    \/ HeaderEvents
    \/ \E u \in Users \cup {NoUser}, l \in BOOLEAN : authStateChange(u, l)

IndexSpec == IndexInit /\ [][IndexNext]_vars

FairIndexSpec == IndexSpec /\ SampleTimersFire

\* the mounted Analyze page with a simulateAnalysis that may reject
FaultNext ==
    \/ PageNext
    \/ \E i \in 1..MaxRuns : handleAnalyzeCatch(i)

FaultSpec == PageInit /\ [][FaultNext]_vars

-----------------------------------------------------------------------------
(* CodeBlock (src/src/components/ui/code-block.tsx, first part) *)

\* the delay of setTimeout(() => setCopied(false), 2000), in ms
CopiedDelay == 2000

\* the code prop of the block
CodeBlockCode == "const a = 1;"

\* the copy button shows Check while copied, Copy otherwise
CopyButtonIcon == IF copied THEN "Check" ELSE "Copy"

\* copyToClipboard up to its await: the click on the copy button
codeBlockCopy ==
    /\ copyWrites + Len(copyTimers) < MaxCopies
    /\ copyWrites' = copyWrites + 1
    /\ outputs' = <<[kind |-> "clipboard.writeText", text |-> CodeBlockCode]>>
    /\ lastEvent' = Event("CodeBlock.copyToClipboard", CodeBlockCode)
    /\ toasts' = <<>>
    /\ calls' = <<>>
    /\ UNCHANGED <<copied, copyTimers, dropzoneVars, appVars>>

\* copyToClipboard after its await, the write has succeeded:
\* setCopied(true); setTimeout(() => setCopied(false), 2000)
codeBlockCopyResume ==
    /\ copyWrites > 0
    /\ copyWrites' = copyWrites - 1
    /\ copied' = TRUE
    /\ copyTimers' = Append(copyTimers, CopiedDelay)
    /\ calls' = << Call("setCopied", [value |-> TRUE]),
                   Call("setTimeout", [ms |-> CopiedDelay]) >>
    /\ lastEvent' = Event("CodeBlock.copyToClipboard.resume", CodeBlockCode)
    /\ toasts' = <<>>
    /\ outputs' = <<>>
    /\ UNCHANGED <<dropzoneVars, appVars>>

\* copyToClipboard after its await, the write was rejected: the catch block
\* logs the error and returns
codeBlockCopyCatch ==
    /\ copyWrites > 0
    /\ copyWrites' = copyWrites - 1
    /\ outputs' = <<[kind |-> "console.error", text |-> "Failed to copy text:"]>>
    /\ calls' = <<>>
    /\ lastEvent' = Event("CodeBlock.copyToClipboard.catch", CodeBlockCode)
    /\ toasts' = <<>>
    /\ UNCHANGED <<copied, copyTimers, dropzoneVars, appVars>>

\* the oldest timer expires: setCopied(false)
codeBlockTimeout ==
    /\ copyTimers # <<>>
    /\ Head(copyTimers) <= 0
    /\ copied' = FALSE
    /\ copyTimers' = Tail(copyTimers)
    /\ calls' = <<>>
    /\ lastEvent' = Event("CodeBlock.setTimeout", CopiedDelay)
    /\ toasts' = <<>>
    /\ outputs' = <<>>
    /\ UNCHANGED <<copyWrites, dropzoneVars, appVars>>

\* ClockStep ms pass while timers are pending; a timer that has expired
\* runs before more time passes
clockTick ==
    /\ copyTimers # <<>>
    /\ \A i \in 1..Len(copyTimers) : copyTimers[i] > 0
    /\ copyTimers' = [i \in 1..Len(copyTimers) |-> copyTimers[i] - ClockStep]
    /\ calls' = <<>>
    /\ lastEvent' = Event("clock", ClockStep)
    /\ toasts' = <<>>
    /\ outputs' = <<>>
    /\ UNCHANGED <<copied, copyWrites, dropzoneVars, appVars>>

\* a CodeBlock on its own
CodeBlockInit ==
    /\ Init
    /\ route = "/"
    /\ user = NoUser
    /\ loading = FALSE

CodeBlockNext ==
    \/ codeBlockCopy
    \/ codeBlockCopyResume
    \/ codeBlockCopyCatch
    \/ codeBlockTimeout
    \/ clockTick

CodeBlockSpec == CodeBlockInit /\ [][CodeBlockNext]_vars

\* time passes and expired timers run
ClockRuns == WF_vars(clockTick) /\ WF_vars(codeBlockTimeout)

FairCodeBlockSpec == CodeBlockSpec /\ ClockRuns

-----------------------------------------------------------------------------
(* Dropzone (src/src/components/ui/code-block.tsx, second part) *)

\* the File objects the user may drop
DropFiles ==
    { [id |-> 1, name |-> "a.js", size |-> 1024],
      [id |-> 2, name |-> "b.py", size |-> 2048],
      [id |-> 3, name |-> "c.go", size |-> 512],
      [id |-> 4, name |-> "d.rs", size |-> 4096] }

\* the lists of at most n different files
RECURSIVE DropLists(_)
DropLists(n) ==
    IF n = 0 THEN {<<>>}
    ELSE LET shorter == DropLists(n - 1)
         IN  shorter \cup
             UNION {{Append(s, f) : f \in {g \in DropFiles :
                                              \A i \in 1..Len(s) : s[i] # g}} :
                    s \in shorter}

\* Array.prototype.filter(f => f !== file)
filterOut(files, file) == SelectSeq(files, LAMBDA f : f # file)

\* the names under "Selected Files:", rendered when acceptedFiles.length > 0
SelectedFiles ==
    IF Len(acceptedFiles) > 0
    THEN [i \in 1..Len(acceptedFiles) |-> acceptedFiles[i].name]
    ELSE <<>>

\* the parent renders the Dropzone with another maxFiles prop
dropzoneRender(n) ==
    /\ n # maxFiles
    /\ maxFiles' = n
    /\ lastEvent' = Event("Dropzone", n)
    /\ calls' = <<>>
    /\ toasts' = <<>>
    /\ outputs' = <<>>
    /\ UNCHANGED <<acceptedFiles, codeBlockVars, appVars>>

\* the user drops or selects files that useDropzone accepts: the hook
\* replaces acceptedFiles and calls the onDrop it was given
dropzoneDrop(files) ==
    /\ Len(files) \in 1..maxFiles
    /\ acceptedFiles' = files
    /\ calls' = <<Call("onDrop", [files |-> files])>>
    /\ lastEvent' = Event("useDropzone.onDrop", files)
    /\ toasts' = <<>>
    /\ outputs' = <<>>
    /\ UNCHANGED <<maxFiles, codeBlockVars, appVars>>

\* removeFile(file), from the X button of a listed file:
\* const newFiles = acceptedFiles.filter(f => f !== file); onDrop(newFiles)
removeFile(file) ==
    /\ \E i \in 1..Len(acceptedFiles) : acceptedFiles[i] = file
    /\ LET newFiles == filterOut(acceptedFiles, file)
       IN  calls' = <<Call("onDrop", [files |-> newFiles])>>
    /\ lastEvent' = Event("removeFile", file)
    /\ toasts' = <<>>
    /\ outputs' = <<>>
    /\ UNCHANGED <<acceptedFiles, maxFiles, codeBlockVars, appVars>>

\* a Dropzone on its own
DropzoneInit ==
    /\ Init
    /\ route = "/"
    /\ user = NoUser
    /\ loading = FALSE

DropzoneNext ==
    \/ \E n \in 1..MaxFiles : dropzoneRender(n)
    \/ \E files \in DropLists(MaxFiles) : dropzoneDrop(files)
    \/ \E file \in DropFiles : removeFile(file)

DropzoneSpec == DropzoneInit /\ [][DropzoneNext]_vars

-----------------------------------------------------------------------------
(* Vocabulary of the properties *)

\* the text after the last '.' of a name that has one
AfterLastDot(name) ==
    LET k == CHOOSE i \in 1..Len(name) :
                 name[i] = "." /\ \A j \in (i + 1)..Len(name) : name[j] # "."
    IN  SubSeq(name, k + 1, Len(name))

ListedExtensions == {
    <<"j", "s">>, <<"t", "s">>, <<"j", "s", "x">>, <<"t", "s", "x">>,
    <<"p", "y">>, <<"j", "a", "v", "a">>, <<"c", "p", "p">>, <<"c">>,
    <<"p", "h", "p">>, <<"r", "b">>, <<"g", "o">>, <<"r", "s">> }

\* the name has an extension and it is on the list, whatever its case
HasListedExtension(name) ==
    HasDot(name) /\ toLowerCase(AfterLastDot(name)) \in ListedExtensions

\* the name has an extension (possibly empty) and it is not on the list
HasUnlistedExtension(name) ==
    HasDot(name) /\ toLowerCase(AfterLastDot(name)) \notin ListedExtensions

\* the last step was handleFileUpload for a file
Uploaded == lastEvent.op = "handleFileUpload" /\ lastEvent.arg # NoFile

-----------------------------------------------------------------------------
(* C1: whenever handleAnalyze is invoked with code that is not blank and    *)
(* the timers keep firing, eventually analysisResult is non-null and        *)
(* isAnalyzing is false again (original statement); eventually that, or the *)
(* page has been unmounted in the meantime (amended statement).             *)

\* handleAnalyze has just started a run
RunStarted == lastEvent.op = "handleAnalyze" /\ isAnalyzing

ResultRendered == analysisResult # NoResult /\ ~isAnalyzing

C1_EventuallyResult == RunStarted ~> ResultRendered

C1_ResultUnlessUnmounted == RunStarted ~> (ResultRendered \/ route # "/analyze")

\* the run has ended with the results on screen
C1_Witness ==
    /\ ResultRendered
    /\ view = "analyze"
    /\ toasts # <<>>
    /\ toasts[1].title = "Analysis complete!"

-----------------------------------------------------------------------------
(* C2: an upload of a file whose extension is not on the allow-list emits   *)
(* exactly one destructive "Invalid file type" notification (also when the  *)
(* file is over the size cap), starts no file read and leaves uploadedFile, *)
(* code, language, progress and analysisResult as they were.                *)

C2_RejectionOnly ==
    [][ (lastEvent'.op = "handleFileUpload" /\ lastEvent'.arg # NoFile
           /\ HasUnlistedExtension(lastEvent'.arg.name))
        => /\ toasts' = <<ToastInvalidFileType>>
           /\ toasts'[1].variant = "destructive"
           /\ outputs' = <<>>
           /\ UNCHANGED <<uploadedFile, code, language, progress,
                          analysisResult, isAnalyzing, reads, runs>> ]_vars

\* an oversized file of a disallowed type was rejected while an accepted file
\* was held and a result was on screen
C2_Witness ==
    /\ Uploaded
    /\ HasUnlistedExtension(lastEvent.arg.name)
    /\ lastEvent.arg.size > MaxFileSize
    /\ toasts = <<ToastInvalidFileType>>
    /\ uploadedFile # NoFile
    /\ analysisResult # NoResult

-----------------------------------------------------------------------------
(* C3: the type check of handleFileUpload passes if and only if the file    *)
(* name contains a '.' and the text after its last '.', compared without    *)
(* regard to case, is one of the twelve listed extensions.                  *)

C3_AllowList ==
    Uploaded =>
        ((toasts # <<ToastInvalidFileType>>) <=> HasListedExtension(lastEvent.arg.name))

-----------------------------------------------------------------------------
(* C4: a file of an allowed type larger than 10 MiB is rejected with        *)
(* "File too large" and is neither recorded as uploadedFile nor read; a     *)
(* file of an allowed type of at most 10 MiB (boundary included) is         *)
(* accepted and recorded as uploadedFile.                                   *)

C4_SizeCap ==
    /\ [] /\ uploadedFile # NoFile => uploadedFile.size <= 10 * 1024 * 1024
          /\ \A i \in 1..Len(reads) : reads[i].file.size <= 10 * 1024 * 1024
          /\ (Uploaded /\ HasListedExtension(lastEvent.arg.name)) =>
                IF lastEvent.arg.size > 10 * 1024 * 1024
                THEN toasts = <<ToastFileTooLarge>>
                ELSE /\ toasts = <<>>
                     /\ uploadedFile = lastEvent.arg
                     /\ reads # <<>>
                     /\ reads[Len(reads)] = [live |-> TRUE, file |-> lastEvent.arg]
    /\ [][ (lastEvent'.op = "handleFileUpload" /\ lastEvent'.arg # NoFile
              /\ HasListedExtension(lastEvent'.arg.name)
              /\ lastEvent'.arg.size > 10 * 1024 * 1024)
           => UNCHANGED <<uploadedFile, reads, code, language>> ]_vars

\* a file of exactly 10 MiB was accepted
C4_Witness ==
    /\ Uploaded
    /\ HasListedExtension(lastEvent.arg.name)
    /\ lastEvent.arg.size = 10 * 1024 * 1024
    /\ uploadedFile = lastEvent.arg

-----------------------------------------------------------------------------
(* C5: from the start of a run to its result, progress takes the values     *)
(* 0, 20, 40, 60, 80, 100 in that order, one change per expired timer,      *)
(* never decreasing and never skipping a step, and the result is produced   *)
(* after exactly five timer expirations.                                    *)

\* the pending runs of the page instance on screen
LiveRuns == {i \in 1..Len(runs) : runs[i].live}

C5_ProgressSteps ==
    /\ [] /\ progress \in {0, 20, 40, 60, 80, 100}
          /\ \A i \in LiveRuns : progress = 20 * runs[i].fired
    /\ [][ /\ progress' > progress =>
                /\ progress' = progress + 20
                /\ lastEvent'.op = "setTimeout"
           /\ progress' < progress =>
                /\ progress' = 0
                /\ lastEvent'.op \in {"handleAnalyze", "Link", "Navigate", "authPage"}
           /\ (analysisResult' # analysisResult /\ analysisResult' # NoResult) =>
                /\ progress = 100
                /\ progress' = 100
                /\ \E i \in LiveRuns : runs[i].fired = 5 ]_vars

\* a run has delivered its result after its fifth timer
C5_Witness ==
    /\ lastEvent.op = "handleAnalyze.resume"
    /\ lastEvent.arg
    /\ analysisResult # NoResult
    /\ progress = 100

-----------------------------------------------------------------------------
(* C6: at most one simulated analysis run is in flight at any time          *)
(* (original statement); at most one run of the page instance on screen is  *)
(* in flight, and exactly while isAnalyzing is true (amended statement).    *)

C6_AtMostOneRun == Len(runs) <= 1

C6_OneRunPerMount ==
    /\ Cardinality(LiveRuns) <= 1
    /\ isAnalyzing <=> LiveRuns # {}

\* a run of the mounted page is in flight next to a run left behind by an
\* earlier mount
C6_Witness ==
    /\ LiveRuns # {}
    /\ \E j \in 1..Len(runs) : ~runs[j].live

-----------------------------------------------------------------------------
(* C8: the result of a run is the same static record (3 problems,           *)
(* confidence 94, securityIssues 1, performanceIssues 1, bugCount 1, same   *)
(* summary and fixes) for every code text, language and uploaded file.      *)

C8_StaticResult ==
    analysisResult # NoResult =>
        /\ Len(analysisResult.problems) = 3
        /\ analysisResult.confidence = 94
        /\ analysisResult.securityIssues = 1
        /\ analysisResult.performanceIssues = 1
        /\ analysisResult.bugCount = 1
        /\ analysisResult.summary = MockResult.summary
        /\ analysisResult.fixes = MockResult.fixes
        /\ analysisResult.problems = MockResult.problems

\* a result is shown for an uploaded file, a language other than the default
\* and a code text other than the file's
C8_Witness ==
    /\ analysisResult # NoResult
    /\ uploadedFile # NoFile
    /\ language = "rust"
    /\ code # uploadedFile.content

-----------------------------------------------------------------------------
(* C10: on /analyze and /dashboard, while the auth context reports loading  *)
(* only the loading placeholder is shown; with loading false and no user    *)
(* the page redirects to /auth (replace) and shows nothing else; the page   *)
(* body is shown, and its handlers run, only with loading false and a user. *)

PageHandlers == {"handleFileUpload", "setCode", "setLanguage", "handleAnalyze",
                 "copyToClipboard", "downloadPatch"}

C10_AuthGuard ==
    /\ [] /\ route \in {"/analyze", "/dashboard"} =>
                /\ loading => view = "loading"
                /\ (~loading /\ user = NoUser) => view = "redirect"
                /\ (~loading /\ user # NoUser) =>
                      view = (IF route = "/analyze" THEN "analyze" ELSE "dashboard")
          /\ view \in {"analyze", "dashboard"} => (~loading /\ user # NoUser)
          /\ lastEvent.op \in PageHandlers => (~loading /\ user # NoUser)
    /\ [][ (view = "redirect" /\ route' # route) =>
                /\ route' = "/auth"
                /\ lastEvent' = Event("Navigate", <<"/auth", "replace">>) ]_vars

\* the user is gone while a result is held: the page redirects instead of
\* showing it
C10_Witness ==
    /\ route = "/analyze"
    /\ view = "redirect"
    /\ analysisResult # NoResult

-----------------------------------------------------------------------------
(* C7: on the mounted page a started run goes through all five progress     *)
(* steps and delivers its result under every interleaving of the other      *)
(* actions (editing the code, even to blank; changing the language;         *)
(* uploads; copy; download), none of which touches the run.                 *)

OtherPageActions == {"setCode", "setLanguage", "handleFileUpload", "reader.onload",
                     "copyToClipboard", "downloadPatch"}

C7_NoCancellation ==
    /\ \A k \in 0..4 :
          (\E i \in LiveRuns : runs[i].fired = k)
              ~> (\E i \in LiveRuns : runs[i].fired = k + 1 /\ progress = 20 * (k + 1))
    /\ (LiveRuns # {})
          ~> (lastEvent.op = "handleAnalyze.resume" /\ analysisResult # NoResult)
    /\ [][ lastEvent'.op \in OtherPageActions =>
              UNCHANGED <<runs, isAnalyzing, progress, analysisResult>> ]_vars

\* a run delivered its result although the code had been made blank meanwhile
C7_Witness ==
    /\ lastEvent.op = "handleAnalyze.resume"
    /\ analysisResult # NoResult
    /\ trim(code) = <<>>

-----------------------------------------------------------------------------
(* C9: when simulateAnalysis rejects, handleAnalyze shows exactly one       *)
(* "Analysis failed" notification, leaves analysisResult null, returns      *)
(* isAnalyzing to false and does not retry: a run starts only by a click.   *)

C9_FailureHandling ==
    /\ [] ((lastEvent.op = "handleAnalyze.catch" /\ lastEvent.arg) =>
              /\ toasts = <<ToastAnalysisFailed>>
              /\ analysisResult = NoResult
              /\ ~isAnalyzing
              /\ runs = <<>>)
    /\ [][ (runs' # <<>> /\ runs = <<>>) => lastEvent'.op = "handleAnalyze" ]_vars

\* a run has failed after at least one progress step
C9_Witness ==
    /\ lastEvent.op = "handleAnalyze.catch"
    /\ lastEvent.arg
    /\ progress > 0
    /\ toasts = <<ToastAnalysisFailed>>

-----------------------------------------------------------------------------
(* C11: every run started by handleAnalyze resets progress to 0 and         *)
(* analysisResult to null, and in every state where isAnalyzing is true     *)
(* analysisResult is null, so the results tabs are never rendered together  *)
(* with the in-progress indicator.                                          *)

C11_ResultNullWhileAnalyzing ==
    /\ [] /\ isAnalyzing => analysisResult = NoResult
          /\ ~(ProgressIndicatorRendered /\ ResultsTabsRendered)
    /\ [][ (lastEvent'.op = "handleAnalyze" /\ runs' # runs) =>
              /\ isAnalyzing'
              /\ progress' = 0
              /\ analysisResult' = NoResult ]_vars

\* a run has passed its last timer and its result is still to come: the
\* indicator shows 100 and no tabs
C11_Witness ==
    /\ ProgressIndicatorRendered
    /\ progress = 100
    /\ analysisResult = NoResult
    /\ Len(runs) = 1

-----------------------------------------------------------------------------
(* C12: after the Analyze page is unmounted and mounted again its state is  *)
(* the initial one whatever state it was left in, and a run or file read    *)
(* still pending at the unmount never makes a result, a progress value or   *)
(* code appear in the new mount; every mount of Dashboard ends up with the  *)
(* same three mock history records.                                         *)

PageState ==
    [code |-> code, language |-> language, isAnalyzing |-> isAnalyzing,
     progress |-> progress, analysisResult |-> analysisResult,
     uploadedFile |-> uploadedFile]

NavigationEvents == {"Link", "Navigate", "authPage", "handleSignOut.resume"}

C12_StateDiscarded ==
    /\ [] /\ route # "/analyze" => PageState = AnalyzeInitialState
          /\ (lastEvent.op \in NavigationEvents /\ route = "/analyze") =>
                PageState = AnalyzeInitialState
          \* progress and result of a mount come from a run of that mount
          /\ progress # 0 => (isAnalyzing \/ analysisResult # NoResult)
          /\ analysisResult # NoResult => progress = 100
          /\ route # "/dashboard" => analyses = <<>>
          /\ route = "/dashboard" => analyses \in {<<>>, mockAnalyses}
          /\ lastEvent.op = "useEffect" => analyses = mockAnalyses
    /\ [][ /\ (/\ lastEvent'.op = "setTimeout"
               /\ \E i \in 1..Len(runs) :
                      ~runs[i].live /\ runs'[i].fired # runs[i].fired)
                => UNCHANGED pageVars
           /\ (lastEvent'.op \in {"handleAnalyze.resume", "reader.onload"}
                  /\ ~lastEvent'.arg) => UNCHANGED pageVars
           \* code read from a file belongs to a file uploaded in this mount
           /\ (lastEvent'.op = "reader.onload" /\ code' # code) =>
                  (uploadedFile # NoFile /\ code' = uploadedFile.content)
           \* the mount effect of Dashboard runs before anything else
           /\ MountEffectPending =>
                  (lastEvent'.op = "useEffect" /\ analyses' = mockAnalyses) ]_vars

\* a run left behind by an earlier mount has ended on a new mount of the
\* page, which shows its initial state
C12_Witness ==
    /\ lastEvent.op = "handleAnalyze.resume"
    /\ ~lastEvent.arg
    /\ view = "analyze"
    /\ PageState = AnalyzeInitialState

-----------------------------------------------------------------------------
(* C13: in SampleAnalysisDrawer isAnalyzing and showResults are never both  *)
(* true, so exactly one of the three panels (placeholder, analyzing         *)
(* animation, results tabs) is rendered; Run Analysis is disabled while     *)
(* isAnalyzing is true, so at most one 2000 ms timer is pending (original   *)
(* statement); at most one timer of the drawer on screen is pending, and    *)
(* exactly while its isAnalyzing is true (amended statement).               *)

\* the pending runAnalysis calls of the drawer instance on screen
LiveSampleRuns == {i \in 1..Len(sampleRuns) : sampleRuns[i].live}

OnePanel ==
    /\ ~(sampleIsAnalyzing /\ showResults)
    /\ Cardinality(DrawerPanels) = 1
    /\ sampleIsAnalyzing => ~RunAnalysisEnabled

C13_OnePanelOneTimer ==
    /\ OnePanel
    /\ Len(sampleRuns) <= 1

C13_OnePanelOneTimerPerMount ==
    /\ OnePanel
    /\ Cardinality(LiveSampleRuns) <= 1
    /\ sampleIsAnalyzing <=> LiveSampleRuns # {}

\* the drawer on screen shows the analyzing panel for its own run while the
\* timer of a run of an earlier mount of the page is still pending
C13_Witness ==
    /\ view = "index"
    /\ DrawerPanels = {"analyzing"}
    /\ LiveSampleRuns # {}
    /\ \E j \in 1..Len(sampleRuns) : ~sampleRuns[j].live

-----------------------------------------------------------------------------
(* C14: within one successful run progress reaches 100 before               *)
(* analysisResult is set, analysisResult is set before the "Analysis        *)
(* complete!" notification is emitted, and isAnalyzing returns to false     *)
(* only after both; the notification is emitted exactly once per run and    *)
(* reports the number of problems (3) and the confidence (94) of the result *)
(* that was set.                                                            *)

\* the positions of the calls to fn among the calls of the last continuation
CallPositions(fn) == {k \in 1..Len(calls) : calls[k].call = fn}

CompletionToasts == {k \in 1..Len(toasts) : toasts[k].title = "Analysis complete!"}

C14_RunOrder ==
    /\ [] /\ lastEvent.op = "handleAnalyze.resume" =>
                /\ Cardinality(CallPositions("setAnalysisResult")) = 1
                /\ Cardinality(CallPositions("toast")) = 1
                /\ Cardinality(CallPositions("setIsAnalyzing")) = 1
                /\ \A r \in CallPositions("setAnalysisResult"),
                      t \in CallPositions("toast"),
                      a \in CallPositions("setIsAnalyzing") :
                        /\ r < t
                        /\ t < a
                        /\ calls[a].arg.value = FALSE
                        /\ toasts = <<calls[t].arg>>
                        /\ calls[t].arg.description =
                              <<"Found", Len(calls[r].arg.problems), "issues with",
                                calls[r].arg.confidence, "% confidence.">>
                        /\ lastEvent.arg => analysisResult = calls[r].arg
                /\ toasts[1].description = <<"Found", 3, "issues with", 94, "% confidence.">>
                /\ lastEvent.arg => ~isAnalyzing /\ progress = 100
          /\ CompletionToasts # {} <=> lastEvent.op = "handleAnalyze.resume"
          /\ Cardinality(CompletionToasts) <= 1
    /\ [][ /\ (analysisResult' # analysisResult /\ analysisResult' # NoResult) =>
                /\ progress = 100
                /\ isAnalyzing
                /\ lastEvent'.op = "handleAnalyze.resume"
           /\ lastEvent'.op = "handleAnalyze.resume" =>
                /\ Len(runs') = Len(runs) - 1
                /\ \E i \in 1..Len(runs) :
                      /\ runs[i].fired = Len(progressSteps)
                      /\ runs' = RemoveAt(runs, i)
           /\ (isAnalyzing /\ ~isAnalyzing' /\ route' = route) =>
                /\ lastEvent'.op = "handleAnalyze.resume"
                /\ analysisResult' # NoResult ]_vars

\* a run of the page on screen has ended: its result is set, its one
\* notification reports 3 issues and 94 % and isAnalyzing is false
C14_Witness ==
    /\ lastEvent.op = "handleAnalyze.resume"
    /\ lastEvent.arg
    /\ Len(calls) = 3
    /\ analysisResult = calls[1].arg
    /\ toasts = <<ToastAnalysisComplete(analysisResult)>>
    /\ ~isAnalyzing

-----------------------------------------------------------------------------
(* C15: after runAnalysis is invoked, showResults eventually becomes true   *)
(* and isAnalyzing false, by the single 2000 ms timer, whatever the parent  *)
(* does with isOpen in between; closing the drawer (onClose, header toggle) *)
(* neither cancels a pending run nor resets isAnalyzing or showResults, so  *)
(* the drawer's state does not depend on its having been open or closed.    *)

DrawerToggles == {"onClose", "onPreviewToggle", "trySample"}

-----------------------------------------------------------------------------
(* C16: the landing page's sample drawer is open exactly when               *)
(* showSampleDrawer is true: it starts closed, the header Preview/Hide      *)
(* button flips it, the "Try Sample Analysis" and "Try Sample First"        *)
(* buttons set it to open (never closing an open drawer), the drawer's      *)
(* close button sets it to closed, and the header button reads "Hide        *)
(* Sample" if and only if the drawer is open.                               *)

\* the events that put a new Index page on screen
IndexMounts == {"init", "Link", "authPage"}

C16_DrawerToggle ==
    /\ [] /\ DrawerOpen <=> (view = "index" /\ showSampleDrawer)
          /\ view = "index" =>
                /\ PreviewButtonLabel = <<"Hide", "Sample">> <=> DrawerOpen
                /\ PreviewButtonLabel = <<"Preview", "Sample">> <=> ~DrawerOpen
          /\ (lastEvent.op \in IndexMounts /\ route = "/") => ~DrawerOpen
    /\ [][ /\ lastEvent'.op = "onPreviewToggle" => (DrawerOpen' <=> ~DrawerOpen)
           /\ lastEvent'.op = "trySample" => DrawerOpen'
           /\ lastEvent'.op = "onClose" => ~DrawerOpen'
           /\ (route' = "/" /\ route = "/" /\ showSampleDrawer' # showSampleDrawer) =>
                lastEvent'.op \in DrawerToggles ]_vars

\* the drawer is open after a click on "Try Sample First" and the header
\* button offers to hide it
C16_Witness ==
    /\ lastEvent = Event("trySample", "Try Sample First")
    /\ DrawerOpen
    /\ PreviewButtonLabel = <<"Hide", "Sample">>

-----------------------------------------------------------------------------
(* C17: isMenuOpen starts false, each click on the menu button negates it,  *)
(* the mobile navigation block is rendered if and only if isMenuOpen is     *)
(* true, and no other action of the Header (preview toggle, sign out,       *)
(* following a link) changes isMenuOpen (original statement); no other      *)
(* action changes it while the page of the Header stays on screen, and an   *)
(* action that puts another page on screen leaves the menu of the new       *)
(* page's Header closed (amended statement).                                *)

MenuRendering ==
    /\ lastEvent.op = "init" => ~isMenuOpen
    /\ HeaderMounted(view) => (MobileNavRendered <=> isMenuOpen)
    /\ ~HeaderMounted(view) => ~MobileNavRendered /\ ~isMenuOpen

MenuButtonNegates ==
    lastEvent'.op = "setIsMenuOpen" =>
        /\ isMenuOpen' = ~isMenuOpen
        /\ MobileNavRendered' <=> ~MobileNavRendered

\* the step keeps the Header of the page on screen
SameHeader == route' = route /\ HeaderMounted(view) /\ HeaderMounted(view')

C17_MenuToggle ==
    /\ []MenuRendering
    /\ [][ /\ MenuButtonNegates
           /\ isMenuOpen' # isMenuOpen => lastEvent'.op = "setIsMenuOpen" ]_vars

C17_MenuTogglePerMount ==
    /\ []MenuRendering
    /\ [][ /\ MenuButtonNegates
           /\ (SameHeader /\ isMenuOpen' # isMenuOpen) => lastEvent'.op = "setIsMenuOpen"
           /\ lastEvent'.op \in {"onPreviewToggle", "handleSignOut", "handleSignOut.catch"}
                => UNCHANGED isMenuOpen
           /\ ~SameHeader => ~isMenuOpen' ]_vars

\* a sign-out has failed under an open mobile menu, which is still open
C17_Witness ==
    /\ lastEvent.op = "handleSignOut.catch"
    /\ MobileNavRendered
    /\ route = "/dashboard"

-----------------------------------------------------------------------------
(* C18: handleSignOut navigates to '/' only after signOut has succeeded:    *)
(* on success it emits "Signed out successfully" and then navigates to '/', *)
(* on failure it emits one destructive "Error signing out" notification,    *)
(* performs no navigation and does not retry; no execution shows the error  *)
(* notification and navigates.                                              *)

C18_SignOut ==
    /\ [] /\ lastEvent.op = "handleSignOut.resume" =>
                /\ toasts = <<ToastSignedOut>>
                /\ calls = << Call("toast", ToastSignedOut), Call("navigate", [to |-> "/"]) >>
                /\ \A t \in CallPositions("toast"), n \in CallPositions("navigate") : t < n
                /\ route = "/"
          /\ lastEvent.op = "handleSignOut.catch" =>
                /\ toasts = <<ToastSignOutError>>
                /\ toasts[1].variant = "destructive"
                /\ Cardinality(CallPositions("toast")) = 1
                /\ CallPositions("navigate") = {}
          /\ (ToastSignOutError \in {toasts[k] : k \in 1..Len(toasts)}) =>
                CallPositions("navigate") = {}
          /\ lastEvent.op = "handleSignOut" => (toasts = <<>> /\ calls = <<>>)
    /\ [][ /\ lastEvent'.op = "handleSignOut" =>
                /\ route' = route
                /\ signOuts' = signOuts + 1
           /\ lastEvent'.op = "handleSignOut.resume" =>
                /\ signOuts' = signOuts - 1
                /\ route' = "/"
           /\ lastEvent'.op = "handleSignOut.catch" =>
                /\ signOuts' = signOuts - 1
                /\ UNCHANGED <<route, view, user>>
           /\ signOuts' > signOuts => lastEvent'.op = "handleSignOut" ]_vars

\* a sign-out started on the Dashboard has failed: the error notification is
\* shown, the user is still signed in and still on the Dashboard
C18_Witness ==
    /\ lastEvent.op = "handleSignOut.catch"
    /\ toasts = <<ToastSignOutError>>
    /\ route = "/dashboard"
    /\ view = "dashboard"
    /\ user # NoUser
    /\ signOuts = 0

-----------------------------------------------------------------------------
(* C19: downloadPatch does nothing when analysisResult is null and          *)
(* otherwise produces one text download of analysisResult.fixes;            *)
(* copyToClipboard writes the given text to the clipboard and emits one     *)
(* "Copied to clipboard" notification; neither changes code, language,      *)
(* uploadedFile, isAnalyzing, progress or analysisResult.                   *)

C19_OutputOnly ==
    /\ [] /\ lastEvent.op = "downloadPatch" =>
                /\ toasts = <<>>
                /\ IF analysisResult = NoResult
                   THEN outputs = <<>>
                   ELSE /\ Len(outputs) = 1
                        /\ outputs[1].kind = "download"
                        /\ outputs[1].text = analysisResult.fixes
          /\ lastEvent.op = "copyToClipboard" =>
                /\ outputs = <<[kind |-> "clipboard.writeText", text |-> lastEvent.arg]>>
                /\ toasts = <<ToastCopied>>
    /\ [][ lastEvent'.op \in {"downloadPatch", "copyToClipboard"} =>
              UNCHANGED <<code, language, uploadedFile, isAnalyzing, progress,
                          analysisResult, reads, runs>> ]_vars

\* the fixes of a result were downloaded while the read of an uploaded file
\* was pending, and the read is still pending
C19_Witness ==
    /\ lastEvent.op = "downloadPatch"
    /\ analysisResult # NoResult
    /\ Len(outputs) = 1
    /\ uploadedFile # NoFile
    /\ reads # <<>>

-----------------------------------------------------------------------------
(* C20: on the Dashboard a history record's status is one of completed,     *)
(* analyzing, failed, and the issue count, the confidence and the "View     *)
(* Results" button of a record are rendered if and only if its status is    *)
(* completed; of these and the status icon and badge, records that are      *)
(* analyzing or failed show the icon and the badge only.                    *)

-----------------------------------------------------------------------------
(* C21: handleAnalyze with code that is empty or only whitespace starts no  *)
(* run: it emits the one destructive "No code to analyze" notification,     *)
(* sets no timer and leaves isAnalyzing, progress and analysisResult as     *)
(* they were, so that the result of an earlier run stays displayed.         *)

C21_BlankCodeStartsNoRun ==
    [][ (lastEvent'.op = "handleAnalyze" /\ trim(code) = <<>>) =>
            /\ toasts' = <<ToastNoCode>>
            /\ ToastNoCode.variant = "destructive"
            /\ runs' = runs
            /\ UNCHANGED <<isAnalyzing, progress, analysisResult>>
            /\ (ResultsTabsRendered => ResultsTabsRendered') ]_vars

\* Analyze was clicked on whitespace while the result of an earlier run was shown
C21_Witness ==
    /\ lastEvent.op = "handleAnalyze"
    /\ lastEvent.arg = <<" ">>
    /\ toasts = <<ToastNoCode>>
    /\ ResultsTabsRendered
    /\ runs = <<>>

-----------------------------------------------------------------------------
(* C22: the code shown on the Analyze page matches the file shown as        *)
(* uploaded: after accepted uploads whose reads complete in any order, once *)
(* no read is pending and nothing was typed since, code is the content of   *)
(* the file held in uploadedFile and language is the language mapped from   *)
(* its extension.                                                           *)

C22_CodeMatchesUploadedFile ==
    (reads = <<>> /\ uploadedFile # NoFile) =>
        /\ code = uploadedFile.content
        /\ language = langMap(substring1(fileExtension(uploadedFile)))

-----------------------------------------------------------------------------
(* C23: the selected language is always one of the ten options of the       *)
(* language selector, after any sequence of manual selections and uploads;  *)
(* every extension of the upload allow-list has a language mapping, so a    *)
(* completed read of an accepted file sets language to the mapped value     *)
(* (js, jsx to javascript; ts, tsx to typescript; py to python; rb to ruby; *)
(* rs to rust; java, cpp, c, php, go to themselves).                        *)

\* the mapping as the claim states it, from the extension with its dot
MappedLanguage(ext) ==
    CASE ext \in {<<".", "j", "s">>, <<".", "j", "s", "x">>} -> "javascript"
      [] ext \in {<<".", "t", "s">>, <<".", "t", "s", "x">>} -> "typescript"
      [] ext = <<".", "p", "y">> -> "python"
      [] ext = <<".", "r", "b">> -> "ruby"
      [] ext = <<".", "r", "s">> -> "rust"
      [] ext = <<".", "j", "a", "v", "a">> -> "java"
      [] ext = <<".", "c", "p", "p">> -> "cpp"
      [] ext = <<".", "c">> -> "c"
      [] ext = <<".", "p", "h", "p">> -> "php"
      [] ext = <<".", "g", "o">> -> "go"

C23_LanguageAmongOptions ==
    /\ [] (language \in Languages)
    /\ [] (\A i \in 1..Len(allowedTypes) :
               langMap(substring1(allowedTypes[i])) = MappedLanguage(allowedTypes[i]))
    /\ [][ (lastEvent'.op = "reader.onload" /\ lastEvent'.arg) =>
               \E i \in 1..Len(reads) :
                   /\ reads' = RemoveAt(reads, i)
                   /\ language' = MappedLanguage(fileExtension(reads[i].file)) ]_vars

\* the read of an accepted Rust file has completed and set the language
C23_Witness ==
    /\ lastEvent.op = "reader.onload"
    /\ lastEvent.arg
    /\ uploadedFile # NoFile
    /\ uploadedFile.name = <<"a", ".", "r", "s">>
    /\ language = "rust"
    /\ reads = <<>>

-----------------------------------------------------------------------------
(* C24: the Dashboard statistics are computed over all history records      *)
(* whatever their status: Total Analyses is the number of records, Issues   *)
(* Found is the sum of issuesFound, Avg Confidence is the sum of confidence *)
(* divided by the number of records and rounded to the nearest integer,     *)
(* shown as 0 when there are no records; for the three mock records these   *)
(* are 3, 6 and 61.                                                         *)

RECURSIVE SumOf(_, _)
SumOf(f, n) == IF n = 0 THEN 0 ELSE SumOf(f, n - 1) + f[n]

C24_Statistics ==
    view = "dashboard" =>
        LET n == Len(analyses)
            issues == SumOf([i \in 1..n |-> analyses[i].issuesFound], n)
            confidence == SumOf([i \in 1..n |-> analyses[i].confidence], n)
        IN  /\ stats.total = n
            /\ stats.issues = issues
            /\ stats.avgConfidence \in Nat
            /\ n = 0 => stats.avgConfidence = 0
            /\ n > 0 => /\ 2 * n * stats.avgConfidence - n <= 2 * confidence
                        /\ 2 * confidence < 2 * n * stats.avgConfidence + n
            /\ analyses = mockAnalyses =>
                   stats = [total |-> 3, issues |-> 6, avgConfidence |-> 61]

\* the Dashboard shows the statistics of the three mock records, of which
\* one is still analyzing
C24_Witness ==
    /\ view = "dashboard"
    /\ analyses = mockAnalyses
    /\ \E i \in 1..Len(analyses) : analyses[i].status = "analyzing"
    /\ stats.total = 3
    /\ stats.avgConfidence = 61

-----------------------------------------------------------------------------
(* C25: in CodeBlock the copied indicator is shown for the full 2000 ms     *)
(* after the most recent successful copy and is then cleared: copied        *)
(* becomes true only after the clipboard write succeeded, stays true until  *)
(* 2000 ms after the last successful copyToClipboard (also when the button  *)
(* is clicked several times within 2000 ms), eventually returns to false,   *)
(* and a failed write leaves copied unchanged and propagates no error.      *)

\* less than 2000 ms have passed since the last successful copy: its timer,
\* the youngest, has time left
WithinDelayOfLastCopy ==
    copyTimers # <<>> /\ copyTimers[Len(copyTimers)] > 0

C25_CopiedForFullDelay ==
    /\ [][ (~copied /\ copied') =>
               lastEvent'.op = "CodeBlock.copyToClipboard.resume" ]_vars
    /\ [] (WithinDelayOfLastCopy => copied)
    /\ (copied ~> ~copied)
    /\ [][ lastEvent'.op = "CodeBlock.copyToClipboard.catch" =>
               /\ copied' = copied
               /\ copyTimers' = copyTimers ]_vars

-----------------------------------------------------------------------------
(* C26: Dropzone.removeFile(f) removes the file from the selection: it      *)
(* calls onDrop exactly once with the currently accepted files other than   *)
(* f, in their original order, and afterwards f is no longer among the      *)
(* files listed under "Selected Files".                                     *)

C26_RemoveFile ==
    [][ lastEvent'.op = "removeFile" =>
           LET f == lastEvent'.arg
               kept == {i \in 1..Len(acceptedFiles) : acceptedFiles[i] # f}
           IN  /\ Len(calls') = 1
               /\ calls'[1].call = "onDrop"
               /\ Len(calls'[1].arg.files) = Cardinality(kept)
               /\ \A i \in kept :
                      calls'[1].arg.files[Cardinality({j \in kept : j <= i})]
                          = acceptedFiles[i]
               /\ \A i \in 1..Len(SelectedFiles') : SelectedFiles'[i] # f.name ]_vars

-----------------------------------------------------------------------------
(* C27: the file produced by downloadPatch is named '<name>_fixed.<language>' *)
(* where <name> is the name of the file currently held in uploadedFile, or  *)
(* 'code' when no file was accepted, and <language> is the language         *)
(* selected at the moment of the click; uploadedFile, once set by an        *)
(* accepted upload, is never reset to null by editing the code, changing    *)
(* the language, a rejected upload or a new run.                            *)

C27_DownloadName ==
    /\ [][ lastEvent'.op = "downloadPatch" =>
               /\ Len(outputs') = 1
               /\ outputs'[1].kind = "download"
               /\ Len(outputs'[1].download) = 3
               /\ IF uploadedFile = NoFile
                  THEN outputs'[1].download[1] = "code"
                  ELSE outputs'[1].download[1] = uploadedFile.name
               /\ outputs'[1].download[2] = "_fixed."
               /\ outputs'[1].download[3] = language ]_vars
    /\ [][ uploadedFile' # uploadedFile =>
               /\ lastEvent'.op = "handleFileUpload"
               /\ uploadedFile' = lastEvent'.arg
               /\ uploadedFile' # NoFile
               /\ ~InvalidFileType(uploadedFile') /\ ~FileTooLarge(uploadedFile') ]_vars

\* a patch was downloaded under the name of the uploaded file and a language
\* selected by hand after the upload, with the code edited since
C27_Witness ==
    /\ lastEvent.op = "downloadPatch"
    /\ uploadedFile # NoFile
    /\ code # uploadedFile.content
    /\ language # langMap(substring1(fileExtension(uploadedFile)))
    /\ outputs # <<>>
    /\ outputs[1].download = <<uploadedFile.name, "_fixed.", language>>

=============================================================================
